---- MODULE Spec2Model ----
(***************************************************************************)
(* Model of py-param-cad's validation and revision-lifecycle core:         *)
(*   core/validation_engine.py   ValidationEngine.validate                 *)
(*   data/repositories.py        RevisionRepository, DesignRepository,     *)
(*                               _increment_revision_code                  *)
(*   data/models.py              Design / Revision tables and constraints  *)
(*   data/database.py            get_session (commit / rollback)           *)
(*   core/piece_controller.py    PieceController.generate (steps 1..6)     *)
(*   cad/freecad_engine.py       FreeCADEngine.generate (outcomes only)    *)
(*   gui/main_window.py          _GenerateWorker (one thread per request)  *)
(*                                                                         *)
(* A revision code is a sequence of letter indexes 1..26 ('A'..'Z');       *)
(* indexes 27..52 stand for 'a'..'z'.  A timestamp is a natural number     *)
(* (the ISO-8601 strings of _utcnow_str compare like the instants).        *)
(* Python's None is the string "None" for text fields and 0 for ids.       *)
(***************************************************************************)
EXTENDS Integers, Sequences, FiniteSets, TLC

(* ------------------------------ bounds --------------------------------- *)
NumWorkers == 2
MaxDesigns == 2
MaxClock == 1
MaxStoreOps == 1
MaxRules == 2
SeedLen == 25
MaxCodeLen == 3
MaxRows == 3
MaxSessionRows == 2

(* ------------------------- program constants --------------------------- *)
AlphabetSize == 26

None == "None"
NoId == 0

Workers == 1..NumWorkers

(* ----------------------- revision code allocator ----------------------- *)

\* str.upper() on one letter
UpperChar(c) == IF c > AlphabetSize THEN c - AlphabetSize ELSE c

RECURSIVE Upper(_)
Upper(code) ==
    IF code = <<>> THEN <<>>
    ELSE Upper(SubSeq(code, 1, Len(code) - 1)) \o <<UpperChar(code[Len(code)])>>

\* a loop that carries without resetting the Z it leaves behind
RECURSIVE IncrementLoopNoReset(_, _, _)
IncrementLoopNoReset(chars, idx, carry) ==
    IF carry /\ idx >= 1
    THEN IF chars[idx] = AlphabetSize
         THEN IncrementLoopNoReset(chars, idx - 1, TRUE)
         ELSE IncrementLoopNoReset([chars EXCEPT ![idx] = chars[idx] + 1], idx, FALSE)
    ELSE IF carry THEN <<1>> \o chars ELSE chars

\* the while loop of _increment_revision_code, from position idx with carry
RECURSIVE IncrementLoop(_, _, _)
IncrementLoop(chars, idx, carry) ==
    IF carry /\ idx >= 1
    THEN IF chars[idx] = AlphabetSize
         THEN IncrementLoop([chars EXCEPT ![idx] = 1], idx - 1, TRUE)
         ELSE IncrementLoop([chars EXCEPT ![idx] = chars[idx] + 1], idx, FALSE)
    ELSE IF carry THEN <<1>> \o chars ELSE chars

\* a successor that grows the code at the wrong end when the last letter is Z
increment_appending(code) ==
    IF Upper(code)[Len(code)] = AlphabetSize
    THEN Upper(code) \o <<1>>
    ELSE SubSeq(Upper(code), 1, Len(code) - 1) \o <<Upper(code)[Len(code)] + 1>>

_increment_revision_code(code) == IncrementLoop(Upper(code), Len(code), TRUE)

\* The n-th term (n >= 1) of A, B, ..., Z, AA, AB, ... : bijective base 26.
RECURSIVE NthCode(_)
NthCode(n) ==
    IF n = 0 THEN <<>>
    ELSE NthCode((n - 1) \div AlphabetSize) \o <<((n - 1) % AlphabetSize) + 1>>

(* --------------------------- parameter values -------------------------- *)
Num(n) == [num |-> n]
Bool(b) == [bool |-> b]
Str(s) == [str |-> s]

IsStr(v) == "str" \in DOMAIN v
\* Python numeric value of a number or a bool (bool is a subclass of int)
NumOf(v) == IF "num" \in DOMAIN v THEN v.num ELSE IF v.bool THEN 1 ELSE 0

PValid == [espesor |-> Num(12), largo |-> Num(300), ancho |-> Num(200)]
PThin == [PValid EXCEPT !.espesor = Num(2)]
PWide == [PValid EXCEPT !.largo = Num(3000)]
PThinWide == [PValid EXCEPT !.espesor = Num(2), !.largo = Num(3000)]
PZero == [PValid EXCEPT !.ancho = Num(0)]
PStr == [PValid EXCEPT !.espesor = Str("12")]
PNoEsp == [largo |-> Num(300), ancho |-> Num(200)]

\* parameter sets offered to validate on its own
ParamPool == {PValid, PThin, PWide, PThinWide, PZero, PStr, PNoEsp}
\* parameter sets of generation requests
GenParams == {PValid, PWide, PThinWide}

(* --------------------------- rule evaluator ---------------------------- *)
\* eval(expression, _SAFE_GLOBALS, parameters): "true", "false", or the name
\* of the exception raised.
Max2(a, b) == IF a >= b THEN a ELSE b
Min2(a, b) == IF a <= b THEN a ELSE b

\* max(largo, ancho) / min(largo, ancho) <= 10.0
RatioTest(p) ==
    LET hi == Max2(NumOf(p.largo), NumOf(p.ancho))
        lo == Min2(NumOf(p.largo), NumOf(p.ancho))
    IN  IF lo = 0 THEN "ZeroDivisionError"
        ELSE IF lo > 0 THEN (IF hi <= 10 * lo THEN "true" ELSE "false")
        ELSE (IF hi >= 10 * lo THEN "true" ELSE "false")

Eval(expression, p) ==
    CASE expression = "espesor >= 4.0" ->
           IF "espesor" \notin DOMAIN p THEN "NameError"
           ELSE IF IsStr(p.espesor) THEN "TypeError"
           ELSE IF NumOf(p.espesor) >= 4 THEN "true" ELSE "false"
      [] expression = "max(largo, ancho) / min(largo, ancho) <= 10.0" ->
           IF \E n \in {"largo", "ancho"} : n \notin DOMAIN p THEN "NameError"
           ELSE IF IsStr(p.largo) \/ IsStr(p.ancho) THEN "TypeError"
           ELSE RatioTest(p)
      [] expression = "undefined_variable > 0" ->
           IF "undefined_variable" \notin DOMAIN p THEN "NameError"
           ELSE IF IsStr(p.undefined_variable) THEN "TypeError"
           ELSE IF NumOf(p.undefined_variable) > 0 THEN "true" ELSE "false"
      [] expression = "espesor >=" -> "SyntaxError"
      [] expression = "True" -> "true"

IsFault(outcome) == outcome \notin {"true", "false"}

(* -------------------------- validation engine -------------------------- *)
\* class Severity
Severity == {"error", "warning"}

\* dict.get(key, default)
RuleGet(rule, key, default) == IF key \in DOMAIN rule THEN rule[key] ELSE default

ValidationMessage(rule_id, severity, exc, text) ==
    [rule_id |-> rule_id, severity |-> severity,
     message |-> [exc |-> exc, text |-> text]]

\* an iteration that keeps the declared severity when the evaluation faults
RuleStepDeclaredSeverity(parameters, rule, acc) ==
    LET outcome == Eval(RuleGet(rule, "expression", "True"), parameters)
    IN  IF outcome = "true" THEN acc
        ELSE [acc EXCEPT !.messages =
                 Append(@, ValidationMessage(RuleGet(rule, "rule_id", "UNKNOWN"),
                                             RuleGet(rule, "severity", "error"),
                                             IF IsFault(outcome) THEN outcome ELSE None,
                                             RuleGet(rule, "message", "Validation failed.")))]

\* an iteration that puts its message in front of the earlier ones
RuleStepPrepending(parameters, rule, acc) ==
    LET outcome == Eval(RuleGet(rule, "expression", "True"), parameters)
    IN  IF outcome = "true" THEN acc
        ELSE [acc EXCEPT !.messages =
                 <<ValidationMessage(RuleGet(rule, "rule_id", "UNKNOWN"),
                                     IF IsFault(outcome) THEN "error"
                                     ELSE RuleGet(rule, "severity", "error"),
                                     IF IsFault(outcome) THEN outcome ELSE None,
                                     RuleGet(rule, "message", "Validation failed."))>>
                 \o @]

\* One iteration of the for loop of validate: acc is the messages collected
\* so far and whether an exception left the loop (the except clause catches
\* every Exception the evaluation raises, so the body never sets it).
RuleStep(parameters, rule, acc) ==
    LET rule_id == RuleGet(rule, "rule_id", "UNKNOWN")
        expression == RuleGet(rule, "expression", "True")
        severity == RuleGet(rule, "severity", "error")
        message == RuleGet(rule, "message", "Validation failed.")
        outcome == Eval(expression, parameters)
    IN  IF IsFault(outcome)
        THEN [acc EXCEPT !.messages =
                 Append(@, ValidationMessage(rule_id, "error", outcome, message))]
        ELSE IF outcome = "false"
        THEN [acc EXCEPT !.messages =
                 Append(@, ValidationMessage(rule_id, severity, None, message))]
        ELSE acc

RECURSIVE ValidateLoop(_, _, _, _)
ValidateLoop(parameters, rules, i, acc) ==
    IF i > Len(rules) \/ acc.raised # None THEN acc
    ELSE ValidateLoop(parameters, rules, i + 1, RuleStep(parameters, rules[i], acc))

\* a validity test that counts every message
HasMessages(messages) == messages # <<>>

\* has_errors = any(m.severity == Severity.ERROR for m in messages)
HasErrors(messages) == \E i \in 1..Len(messages) : messages[i].severity = "error"

\* ValidationEngine.validate
validate(parameters, rules) ==
    LET acc == ValidateLoop(parameters, rules, 1, [messages |-> <<>>, raised |-> None])
    IN  [raised |-> acc.raised,
         is_valid |-> ~HasErrors(acc.messages),
         messages |-> acc.messages]

\* ValidationResult.errors / .warnings
BySeverity(messages, severity) ==
    SelectSeq(messages, LAMBDA m : m.severity = severity)

Errors(result) == BySeverity(result.messages, "error")
Warnings(result) == BySeverity(result.messages, "warning")

\* [m.message for m in ...]
Texts(messages) == [i \in 1..Len(messages) |-> messages[i].message]

(* ------------------------------- catalog ------------------------------- *)
VR_BP_01 == [rule_id |-> "VR-BP-01", expression |-> "espesor >= 4.0",
             severity |-> "error", message |-> "Espesor minimo 4 mm."]
VR_BP_02 == [rule_id |-> "VR-BP-02",
             expression |-> "max(largo, ancho) / min(largo, ancho) <= 10.0",
             severity |-> "warning", message |-> "Relacion largo/ancho supera 10:1."]
VR_BAD == [rule_id |-> "VR-BAD", expression |-> "undefined_variable > 0",
           severity |-> "error", message |-> "Bad rule."]
VR_BAD_W == [VR_BAD EXCEPT !.rule_id = "VR-BAD-W", !.severity = "warning"]
VR_SYN_W == [rule_id |-> "VR-SYN-W", expression |-> "espesor >=",
             severity |-> "warning", message |-> "Syntax."]
VR_DEFAULTS == [rule_id |-> "VR-DEF"]
VR_BP_01_W == [VR_BP_01 EXCEPT !.rule_id = "VR-BP-01-W", !.severity = "warning"]

\* rules offered to validate on its own
RulePool == {VR_BP_01, VR_BP_02, VR_BAD, VR_BAD_W, VR_SYN_W, VR_DEFAULTS, VR_BP_01_W}

\* catalog.get_validation_rules(piece_code): [] for an unknown piece code
CatalogRules(piece_code) ==
    IF piece_code = "base_plate" THEN <<VR_BP_01, VR_BP_02>> ELSE <<>>

(* ----------------------------- persistence ----------------------------- *)
\* a NULL text column / an absent optional value that holds structured text
NoText == [none |-> TRUE]

\* a setter that stores str(value) for every value
JsonDumpsValueAsStr(v) ==
    [lit |-> "string",
     s |-> IF "num" \in DOMAIN v THEN ToString(v.num)
           ELSE IF "bool" \in DOMAIN v THEN (IF v.bool THEN "True" ELSE "False")
           ELSE v.str]

\* json.dumps / json.loads of one parameter value
JsonDumpsValue(v) ==
    IF "num" \in DOMAIN v THEN [lit |-> "number", n |-> v.num]
    ELSE IF "bool" \in DOMAIN v THEN [lit |-> IF v.bool THEN "true" ELSE "false"]
    ELSE [lit |-> "string", s |-> v.str]

JsonLoadsValue(t) ==
    IF t.lit = "number" THEN Num(t.n)
    ELSE IF t.lit = "string" THEN Str(t.s)
    ELSE Bool(t.lit = "true")

\* Revision.parameters setter / getter
JsonDumps(value) == [k \in DOMAIN value |-> JsonDumpsValue(value[k])]
JsonLoads(text) == [k \in DOMAIN text |-> JsonLoadsValue(text[k])]

\* json.dumps / json.loads of a list of message strings
JsonDumpsList(msgs) ==
    [array |-> [i \in 1..Len(msgs) |-> [lit |-> "string", s |-> msgs[i]]]]
JsonLoadsList(text) == [i \in 1..Len(text.array) |-> text.array[i].s]

\* json.dumps(warning_msgs) if warning_msgs else None
WarningsJson(warning_msgs) ==
    IF warning_msgs = <<>> THEN NoText ELSE JsonDumpsList(warning_msgs)

\* a getter that hands out the NULL of the column
validation_warnings_or_none(rev) ==
    IF rev.validation_warnings_json = NoText THEN NoText
    ELSE JsonLoadsList(rev.validation_warnings_json)

\* Revision.validation_warnings
validation_warnings(rev) ==
    IF rev.validation_warnings_json = NoText THEN <<>>
    ELSE JsonLoadsList(rev.validation_warnings_json)

PathKeys == {"fcstd", "step", "dxf", "pdf", "bom_xlsx", "bom_pdf"}
\* an allowed set that also lets "released" through
EcoStatusesWide == {"draft", "issued", "obsolete", "released"}

\* update_eco_status: allowed = {"draft", "issued", "obsolete"}
EcoStatuses == {"draft", "issued", "obsolete"}

\* dict.get(key) on a paths dict
PathGet(paths, key) == IF key \in DOMAIN paths THEN paths[key] ELSE None

\* piece_types table, seeded by init_db (read-only afterwards)
PieceTypeTable == (1 :> [code |-> "base_plate"])

\* re.sub(r"[^\w\-]", "_", design_name), a name being a sequence of characters
WordChars == {"P", "1", "_", "-"}
SafeName(name) ==
    [i \in 1..Len(name) |-> IF name[i] \in WordChars THEN name[i] ELSE "_"]

DesignNames == {<<"P", " ", "1">>, <<"P", "_", "1">>}

VARIABLES
    designs,      \* designs table: id -> [piece_type_id, name]
    revisions,    \* revisions table: id -> row
    clock,        \* the instant datetime.now() returns
    pc,           \* per worker thread: the stage generate() is at
    loc,          \* per worker thread: the locals of generate()
    resp,         \* per worker thread: the GenerationResponse returned
    engineLog,    \* the calls made to engine.generate
    assigned,     \* per design: codes given to inserted revisions, in order
    storeOps,     \* direct store mutations made so far
    vIn,          \* validate on its own: the arguments
    vOut,         \* validate on its own: the result
    call,         \* the last repository (or pure function) call and its outcome
    session       \* the store session that is open, with its uncommitted rows

vars == <<designs, revisions, clock, pc, loc, resp, engineLog, assigned,
          storeOps, vIn, vOut, call, session>>

pipeVars == <<designs, revisions, clock, pc, loc, resp, engineLog, assigned,
              storeOps, call, session>>

\* autoincrement primary key (SQLite rowid: one more than the largest present)
RECURSIVE MaxOf(_)
MaxOf(S) == IF S = {} THEN 0
            ELSE LET x == CHOOSE x \in S : TRUE
                     m == MaxOf(S \ {x})
                 IN  IF x > m THEN x ELSE m

NextId(table) == MaxOf(DOMAIN table) + 1

\* rows of one design
RevisionsOf(design_id) ==
    {r \in DOMAIN revisions : revisions[r].design_id = design_id}

\* RevisionRepository.get_by_design: the rows of the design ORDER BY
\* generated_at ASC; rows with equal generated_at come in any order.
IsGetByDesign(seq, design_id) ==
    /\ Len(seq) = Cardinality(RevisionsOf(design_id))
    /\ {seq[i] : i \in 1..Len(seq)} = RevisionsOf(design_id)
    /\ \A i \in 1..Len(seq) - 1 :
           revisions[seq[i]].generated_at <= revisions[seq[i + 1]].generated_at

\* the rows that can be revisions[-1] of get_by_design
GetByDesignLast(design_id) ==
    {r \in RevisionsOf(design_id) :
        \A q \in RevisionsOf(design_id) :
            revisions[q].generated_at <= revisions[r].generated_at}

\* every arrangement of a set of row ids in a sequence
RECURSIVE Orderings(_)
Orderings(S) ==
    IF S = {} THEN {<<>>}
    ELSE UNION {{<<x>> \o q : q \in Orderings(S \ {x})} : x \in S}

\* the lists RevisionRepository.get_by_design can return
get_by_design(design_id) ==
    {seq \in Orderings(RevisionsOf(design_id)) : IsGetByDesign(seq, design_id)}

\* a latest revision taken by timestamp: the first of ORDER BY generated_at DESC
latest_by_generated_at(design_id) ==
    IF RevisionsOf(design_id) = {} THEN NoId
    ELSE CHOOSE r \in GetByDesignLast(design_id) :
             \A q \in GetByDesignLast(design_id) : r <= q

\* RevisionRepository.get_latest_for_design: ORDER BY id DESC, first()
get_latest_for_design(design_id) ==
    IF RevisionsOf(design_id) = {} THEN NoId ELSE MaxOf(RevisionsOf(design_id))

\* a next code computed from the latest row of the whole table
next_code_of_store(design_id) ==
    IF DOMAIN revisions = {} THEN {<<1>>}
    ELSE {_increment_revision_code(revisions[r].revision_code) :
             r \in {r \in DOMAIN revisions :
                      \A q \in DOMAIN revisions :
                          revisions[q].generated_at <= revisions[r].generated_at}}

\* RevisionRepository.get_next_revision_code: the codes it can return
get_next_revision_code(design_id) ==
    IF RevisionsOf(design_id) = {} THEN {<<1>>}
    ELSE {_increment_revision_code(revisions[r].revision_code) :
             r \in GetByDesignLast(design_id)}

\* a table without the UNIQUE constraint
InsertViolatesForeignKey(design_id, revision_code) ==
    design_id \notin DOMAIN designs

\* INSERT checks: FOREIGN KEY designs.id and UNIQUE (design_id, revision_code)
InsertViolates(design_id, revision_code) ==
    \/ design_id \notin DOMAIN designs
    \/ \E r \in RevisionsOf(design_id) : revisions[r].revision_code = revision_code

\* the row RevisionRepository.create flushes and step 3 of generate completes
\* before its commit
NewRevision(design_id, revision_code, parameters, warning_msgs) ==
    [design_id |-> design_id,
     revision_code |-> revision_code,
     parameters_json |-> JsonDumps(parameters),
     generated_at |-> clock,
     fcstd_path |-> None, step_path |-> None, dxf_path |-> None,
     pdf_path |-> None, bom_xlsx_path |-> None, bom_pdf_path |-> None,
     eco_number |-> None, eco_reason |-> None, eco_status |-> "draft",
     validation_passed |-> 1,
     validation_warnings_json |-> WarningsJson(warning_msgs)]

\* an update that also refreshes the timestamp of the row
WithOutputPathsTouched(rev, paths) ==
    [rev EXCEPT !.generated_at = clock,
                !.fcstd_path = PathGet(paths, "fcstd"),
                !.step_path = PathGet(paths, "step"),
                !.dxf_path = PathGet(paths, "dxf"),
                !.pdf_path = PathGet(paths, "pdf"),
                !.bom_xlsx_path = PathGet(paths, "bom_xlsx"),
                !.bom_pdf_path = PathGet(paths, "bom_pdf")]

\* an update that leaves the columns whose key is not supplied as they were
WithOutputPathsMerged(rev, paths) ==
    [rev EXCEPT !.fcstd_path = IF "fcstd" \in DOMAIN paths THEN paths.fcstd ELSE @,
                !.step_path = IF "step" \in DOMAIN paths THEN paths.step ELSE @,
                !.dxf_path = IF "dxf" \in DOMAIN paths THEN paths.dxf ELSE @,
                !.pdf_path = IF "pdf" \in DOMAIN paths THEN paths.pdf ELSE @,
                !.bom_xlsx_path = IF "bom_xlsx" \in DOMAIN paths
                                  THEN paths.bom_xlsx ELSE @,
                !.bom_pdf_path = IF "bom_pdf" \in DOMAIN paths
                                 THEN paths.bom_pdf ELSE @]

\* RevisionRepository.update_output_paths on an existing row
WithOutputPaths(rev, paths) ==
    [rev EXCEPT !.fcstd_path = PathGet(paths, "fcstd"),
                !.step_path = PathGet(paths, "step"),
                !.dxf_path = PathGet(paths, "dxf"),
                !.pdf_path = PathGet(paths, "pdf"),
                !.bom_xlsx_path = PathGet(paths, "bom_xlsx"),
                !.bom_pdf_path = PathGet(paths, "bom_pdf")]

\* the six output-path columns of a row are all NULL
NoOutputPaths(rev) ==
    /\ rev.fcstd_path = None /\ rev.step_path = None /\ rev.dxf_path = None
    /\ rev.pdf_path = None /\ rev.bom_xlsx_path = None /\ rev.bom_pdf_path = None

\* an update that only moves a revision forward: draft, issued, obsolete
WithEcoStatusForwardOnly(rev, status, eco_number, eco_reason) ==
    LET rank(s) == CASE s = "draft" -> 1 [] s = "issued" -> 2 [] s = "obsolete" -> 3
    IN  IF rank(status) < rank(rev.eco_status) THEN rev
        ELSE [rev EXCEPT !.eco_status = status,
                         !.eco_number = IF eco_number # None THEN eco_number ELSE @,
                         !.eco_reason = IF eco_reason # None THEN eco_reason ELSE @]

\* an update that writes the two optional arguments even when they are omitted
WithEcoStatusOverwriting(rev, status, eco_number, eco_reason) ==
    [rev EXCEPT !.eco_status = status,
                !.eco_number = eco_number,
                !.eco_reason = eco_reason]

\* RevisionRepository.update_eco_status on an existing row, status allowed
WithEcoStatus(rev, status, eco_number, eco_reason) ==
    [rev EXCEPT !.eco_status = status,
                !.eco_number = IF eco_number # None THEN eco_number ELSE @,
                !.eco_reason = IF eco_reason # None THEN eco_reason ELSE @]

(* ------------------------ external generation -------------------------- *)
Text(t) == [exc |-> None, text |-> t]

GenerationResult(success, fcstd_path, step_path, error_message, warnings) ==
    [success |-> success, fcstd_path |-> fcstd_path, step_path |-> step_path,
     error_message |-> error_message, warnings |-> warnings]

NoResult == GenerationResult(FALSE, None, None, None, <<>>)

\* What FreeCADEngine.generate can do: return the result.json the script wrote
\* ("ok": success with both artifacts; "ok_partial": success without STEP and
\* with a warning; "reported": success = false without error_message), return
\* a failure with a message for a non-zero exit, a missing result.json or
\* subprocess.TimeoutExpired ("timeout"), or let any other exception
\* (subprocess.run's OSError, json.loads' error) propagate ("raised").
EngineOutcomes == {"ok", "ok_partial", "reported", "timeout", "raised"}

EngineResult(outcome) ==
    CASE outcome = "ok" ->
           GenerationResult(TRUE, "model.FCStd", "model.step", None, <<>>)
      [] outcome = "ok_partial" ->
           GenerationResult(TRUE, "model.FCStd", None, None, <<Text("sin STEP")>>)
      [] outcome = "reported" ->
           GenerationResult(FALSE, None, None, None, <<Text("aviso")>>)
      [] outcome = "timeout" ->
           GenerationResult(FALSE, None, None, "FreeCAD agoto el tiempo limite", <<>>)

(* ----------------------------- orchestrator ---------------------------- *)
GenerationResponse(success, revision_id, revision_code, output_dir, errors, warnings) ==
    [success |-> success, revision_id |-> revision_id,
     revision_code |-> revision_code, output_dir |-> output_dir,
     errors |-> errors, warnings |-> warnings]

NoDir == [piece_code |-> None, safe_name |-> <<>>, revision_code |-> <<>>]
NoResponse == GenerationResponse(FALSE, NoId, <<>>, NoDir, <<>>, <<>>)
NoValidation == [raised |-> None, is_valid |-> FALSE, messages |-> <<>>]

\* settings.outputs_dir / piece_code / safe_name / revision_code
OutputDir(piece_code, design_name, revision_code) ==
    [piece_code |-> piece_code, safe_name |-> SafeName(design_name),
     revision_code |-> revision_code]

\* the locals of one generate() call, before step 1
Locals(design_id, parameters) ==
    [design_id |-> design_id, parameters |-> parameters,
     piece_code |-> None, design_name |-> <<>>,
     validated |-> FALSE, validation |-> NoValidation, warning_msgs |-> <<>>,
     revision_code |-> <<>>, revision_id |-> NoId,
     output_dir |-> NoDir, ncalls |-> 0, cad_result |-> NoResult, exc |-> None]

\* generate(), step 2 once step 1 resolved the design: validate, abort on errors
Step2(locals) ==
    LET validation == validate(locals.parameters, CatalogRules(locals.piece_code))
    IN  [locals EXCEPT !.validated = TRUE,
                       !.validation = validation,
                       !.warning_msgs = IF validation.is_valid
                                        THEN Texts(Warnings(validation)) ELSE <<>>]

\* a step 2 without its early return
AbortsNever(validation) == FALSE

\* generate(), step 2: if not validation.is_valid
Aborts(validation) == ~validation.is_valid

\* a step 5 that deletes the row of a failed generation
Step5RollingBack(rows, locals) ==
    IF locals.cad_result.success
    THEN [rows EXCEPT ![locals.revision_id] =
             WithOutputPaths(@, [fcstd |-> locals.cad_result.fcstd_path,
                                 step |-> locals.cad_result.step_path])]
    ELSE [r \in DOMAIN rows \ {locals.revision_id} |-> rows[r]]

\* a step 5 that writes the paths to every row of the design
Step5AllOfDesign(rows, locals) ==
    IF locals.cad_result.success
    THEN [r \in DOMAIN rows |->
             IF rows[r].design_id = locals.design_id
             THEN WithOutputPaths(rows[r], [fcstd |-> locals.cad_result.fcstd_path,
                                            step |-> locals.cad_result.step_path])
             ELSE rows[r]]
    ELSE rows

\* generate(), step 5: the revisions table after persisting the output paths
\* of a successful run (update_output_paths ignores an unknown id)
Step5(rows, locals) ==
    IF locals.cad_result.success /\ locals.revision_id \in DOMAIN rows
    THEN [rows EXCEPT ![locals.revision_id] =
             WithOutputPaths(@, [fcstd |-> locals.cad_result.fcstd_path,
                                 step |-> locals.cad_result.step_path])]
    ELSE rows

Failure(errors, warnings) ==
    GenerationResponse(FALSE, NoId, <<>>, NoDir, errors, warnings)

\* a not-found return that reports no error
NotFoundSilent(message) == Failure(<<>>, <<>>)

\* generate(), step 1: GenerationResponse(success=False, errors=[message])
NotFound(message) == Failure(<<Text(message)>>, <<>>)

\* generate() is entered on a fresh worker thread (_GenerateWorker.run);
\* step 1 resolves design and piece type in one session, step 2 is local.
Resolve(w, design_id, parameters) ==
    /\ pc[w] = "idle"
    /\ \A v \in Workers : v < w => pc[v] # "idle"
    /\ IF design_id \notin DOMAIN designs
       THEN /\ loc' = [loc EXCEPT ![w] = Locals(design_id, parameters)]
            /\ resp' = [resp EXCEPT ![w] = NotFound("Diseno no encontrado.")]
            /\ pc' = [pc EXCEPT ![w] = "done"]
       ELSE IF designs[design_id].piece_type_id \notin DOMAIN PieceTypeTable
       THEN /\ loc' = [loc EXCEPT ![w] = Locals(design_id, parameters)]
            /\ resp' = [resp EXCEPT ![w] = NotFound("Tipo de pieza no encontrado.")]
            /\ pc' = [pc EXCEPT ![w] = "done"]
       ELSE LET locals ==
                  Step2([Locals(design_id, parameters) EXCEPT
                     !.piece_code = PieceTypeTable[designs[design_id].piece_type_id].code,
                     !.design_name = designs[design_id].name])
            IN  /\ loc' = [loc EXCEPT ![w] = locals]
                /\ IF Aborts(locals.validation)
                   THEN /\ resp' = [resp EXCEPT ![w] =
                               Failure(Texts(Errors(locals.validation)),
                                       Texts(Warnings(locals.validation)))]
                        /\ pc' = [pc EXCEPT ![w] = "done"]
                   ELSE /\ resp' = resp
                        /\ pc' = [pc EXCEPT ![w] = "record_read"]
    /\ UNCHANGED <<designs, revisions, clock, engineLog, assigned, storeOps, vIn, vOut, call, session>>

\* generate(), step 3, first half: RevisionRepository.create reads the
\* design's revisions and computes the next code (a SELECT outside any
\* write transaction)
RecordRead(w) ==
    /\ pc[w] = "record_read"
    /\ \E code \in get_next_revision_code(loc[w].design_id) :
           loc' = [loc EXCEPT ![w].revision_code = code]
    /\ pc' = [pc EXCEPT ![w] = "record_insert"]
    /\ UNCHANGED <<designs, revisions, clock, resp, engineLog, assigned,
                   storeOps, vIn, vOut, call, session>>

\* generate(), step 3, second half: flush (INSERT), set the validation
\* snapshot, commit.  A constraint violation raises IntegrityError out of
\* generate(); get_session rolls the session back.
RecordInsert(w) ==
    /\ pc[w] = "record_insert"
    /\ IF InsertViolates(loc[w].design_id, loc[w].revision_code)
       THEN /\ loc' = [loc EXCEPT ![w].exc = "IntegrityError"]
            /\ pc' = [pc EXCEPT ![w] = "raised"]
            /\ UNCHANGED <<revisions, assigned>>
       ELSE LET id == NextId(revisions)
            IN  /\ revisions' = revisions @@
                       (id :> NewRevision(loc[w].design_id, loc[w].revision_code,
                                          loc[w].parameters, loc[w].warning_msgs))
                /\ assigned' = [assigned EXCEPT ![loc[w].design_id] =
                                   Append(@, loc[w].revision_code)]
                /\ loc' = [loc EXCEPT ![w].revision_id = id]
                /\ pc' = [pc EXCEPT ![w] = "engine"]
    /\ UNCHANGED <<designs, clock, resp, engineLog , storeOps, vIn, vOut, call, session>>

\* an engine call that always names the first revision
EngineCallFirstCode(w, locals, output_dir) ==
    [worker |-> w,
     revision_id |-> locals.revision_id,
     piece_code |-> locals.piece_code,
     parameters |-> locals.parameters,
     output_dir |-> output_dir,
     revision_code |-> <<1>>]

\* self.engine.generate(piece_code=..., parameters=request.parameters,
\* output_dir=..., revision_code=...), made by the invocation of worker w
\* for the row it committed
EngineCall(w, locals, output_dir) ==
    [worker |-> w,
     revision_id |-> locals.revision_id,
     piece_code |-> locals.piece_code,
     parameters |-> locals.parameters,
     output_dir |-> output_dir,
     revision_code |-> locals.revision_code]

\* generate(), step 4: build the output directory and call engine.generate
EngineGenerate(w, outcome) ==
    /\ pc[w] = "engine"
    /\ LET output_dir == OutputDir(loc[w].piece_code, loc[w].design_name,
                                   loc[w].revision_code)
       IN  /\ engineLog' = engineLog \cup {EngineCall(w, loc[w], output_dir)}
           /\ IF outcome = "raised"
              THEN /\ loc' = [loc EXCEPT ![w].output_dir = output_dir,
                                        ![w].ncalls = @ + 1,
                                        ![w].exc = "OSError"]
                   /\ pc' = [pc EXCEPT ![w] = "raised"]
              ELSE /\ loc' = [loc EXCEPT ![w].output_dir = output_dir,
                                        ![w].ncalls = @ + 1,
                                        ![w].cad_result = EngineResult(outcome)]
                   /\ pc' = [pc EXCEPT ![w] = "reconcile"]
    /\ UNCHANGED <<designs, revisions, clock, resp, assigned ,
                   storeOps, vIn, vOut, call, session>>

\* x or default, for an optional text: None and '' are falsy
OrElse(x, default) == IF x = None \/ x = "" THEN default ELSE x

\* a step 6 that forwards only the warnings of the engine
Step6EngineWarningsOnly(locals) ==
    IF locals.cad_result.success
    THEN GenerationResponse(TRUE, locals.revision_id, locals.revision_code,
                            locals.output_dir, <<>>, locals.cad_result.warnings)
    ELSE GenerationResponse(FALSE, locals.revision_id, locals.revision_code,
                            locals.output_dir,
                            <<Text(OrElse(locals.cad_result.error_message,
                                          "Error desconocido en el motor CAD."))>>,
                            locals.cad_result.warnings)

\* generate(), step 6: the response built from the locals once the engine
\* has returned
Step6(locals) ==
    LET cad_result == locals.cad_result
        all_warnings == locals.warning_msgs \o cad_result.warnings
    IN  IF cad_result.success
        THEN GenerationResponse(TRUE, locals.revision_id, locals.revision_code,
                                locals.output_dir, <<>>, all_warnings)
        ELSE GenerationResponse(FALSE, locals.revision_id, locals.revision_code,
                                locals.output_dir,
                                <<Text(OrElse(cad_result.error_message,
                                              "Error desconocido en el motor CAD."))>>,
                                all_warnings)

\* generate(), steps 5 and 6: persist the output paths of a successful run,
\* commit, build the response
Reconcile(w) ==
    /\ pc[w] = "reconcile"
    /\ revisions' = Step5(revisions, loc[w])
    /\ resp' = [resp EXCEPT ![w] = Step6(loc[w])]
    /\ pc' = [pc EXCEPT ![w] = "done"]
    /\ UNCHANGED <<designs, clock, loc, engineLog, assigned ,
                   storeOps, vIn, vOut, call, session>>

(* ------------------------ other store operations ----------------------- *)
\* PieceController.create_design for the seeded piece type
CreateDesign(name) ==
    /\ NextId(designs) <= MaxDesigns
    /\ designs' = designs @@ (NextId(designs) :> [piece_type_id |-> 1, name |-> name])
    /\ UNCHANGED <<revisions, clock, pc, loc, resp, engineLog, assigned,
                   storeOps, vIn, vOut, call, session>>

\* RevisionRepository.update_eco_status in a session the caller commits
UpdateEcoStatus(revision_id, status, eco_number, eco_reason) ==
    /\ storeOps < MaxStoreOps
    /\ storeOps' = storeOps + 1
    /\ IF status \notin EcoStatuses
       THEN revisions' = revisions        \* raise ValueError
       ELSE IF revision_id \in DOMAIN revisions
       THEN revisions' = [revisions EXCEPT ![revision_id] =
                WithEcoStatus(@, status, eco_number, eco_reason)]
       ELSE revisions' = revisions
    /\ call' = [op |-> "update_eco_status",
                exc |-> IF status \notin EcoStatuses THEN "ValueError" ELSE None]
    /\ UNCHANGED <<designs, clock, pc, loc, resp, engineLog, assigned,
                   vIn, vOut, session>>

\* RevisionRepository.update_output_paths in a session the caller commits
UpdateOutputPaths(revision_id, paths) ==
    /\ storeOps < MaxStoreOps
    /\ storeOps' = storeOps + 1
    /\ IF revision_id \in DOMAIN revisions
       THEN revisions' = [revisions EXCEPT ![revision_id] = WithOutputPaths(@, paths)]
       ELSE revisions' = revisions
    /\ call' = [op |-> "update_output_paths", exc |-> None]
    /\ UNCHANGED <<designs, clock, pc, loc, resp, engineLog, assigned,
                   vIn, vOut, session>>

\* time passes between two readings of datetime.now()
Tick ==
    /\ clock < MaxClock
    /\ clock' = clock + 1
    /\ UNCHANGED <<designs, revisions, pc, loc, resp, engineLog, assigned,
                   storeOps, vIn, vOut, call, session>>

\* arguments of the direct store operations
StatusInputs == EcoStatuses \cup {"released"}
EcoNumberInputs == {None, "ECO-1"}
EcoReasonInputs == {None, "cambio"}
PathInputs == {[dxf |-> "plano.dxf"],
               [fcstd |-> "otro.FCStd", step |-> "otro.step", pdf |-> "plano.pdf"]}
RevisionIdInputs == DOMAIN revisions \cup {NextId(revisions)}

(* ---------------------------- specification ---------------------------- *)
\* no repository call has been made on its own
NoCall == [op |-> None, exc |-> None]

NoValidateCall == [called |-> FALSE, result |-> NoValidation]

\* no session is open
NoSession == [open |-> FALSE, step |-> 0, rows |-> <<>>, revision_id |-> NoId,
              warning_msgs |-> <<>>, paths |-> <<>>, next |-> 0]

\* nothing has been generated yet: the store right after init_db
InitWorkers ==
    /\ session = NoSession
    /\ clock = 0
    /\ pc = [w \in Workers |-> "idle"]
    /\ loc = [w \in Workers |-> Locals(NoId, PValid)]
    /\ resp = [w \in Workers |-> NoResponse]
    /\ engineLog = {}
    /\ storeOps = 0

\* validate is not called on its own
InitNoValidate ==
    /\ vIn = [parameters |-> PValid, rules |-> <<>>]
    /\ vOut = NoValidateCall

InitNoCall == call = NoCall

InitTables ==
    /\ InitWorkers
    /\ designs = <<>>
    /\ revisions = <<>>
    /\ assigned = [d \in 1..MaxDesigns |-> <<>>]

InitFresh == InitTables /\ InitNoValidate /\ InitNoCall

\* the row an earlier, successful generation number i of design 1 left,
\* each at its own instant, the last one at instant 0
SeedRevision(i) ==
    [design_id |-> 1,
     revision_code |-> NthCode(i),
     parameters_json |-> JsonDumps(PValid),
     generated_at |-> i - SeedLen,
     fcstd_path |-> "model.FCStd", step_path |-> "model.step", dxf_path |-> None,
     pdf_path |-> None, bom_xlsx_path |-> None, bom_pdf_path |-> None,
     eco_number |-> None, eco_reason |-> None, eco_status |-> "draft",
     validation_passed |-> 1,
     validation_warnings_json |-> NoText]

\* design 1 exists and has been generated SeedLen times, one after the other
Init ==
    /\ InitWorkers
    /\ InitNoValidate
    /\ InitNoCall
    /\ designs = (1 :> [piece_type_id |-> 1, name |-> <<"P", " ", "1">>])
    /\ revisions = [i \in 1..SeedLen |-> SeedRevision(i)]
    /\ assigned = [d \in 1..MaxDesigns |->
                      IF d = 1 THEN [i \in 1..SeedLen |-> NthCode(i)] ELSE <<>>]

\* generation requests arrive on concurrent worker threads
Next ==
    \/ \E w \in Workers, d \in 1..MaxDesigns, p \in GenParams : Resolve(w, d, p)
    \/ \E w \in Workers : RecordRead(w)
    \/ \E w \in Workers : RecordInsert(w)
    \/ \E w \in Workers, outcome \in EngineOutcomes : EngineGenerate(w, outcome)
    \/ \E w \in Workers : Reconcile(w)
    \/ \E name \in DesignNames : CreateDesign(name)
    \/ Tick

Spec == Init /\ [][Next]_vars

\* no generation is in progress
Quiet == \A w \in Workers : pc[w] \in {"idle", "done", "raised"}

\* one generation at a time (the modal progress dialog of the main window),
\* from a fresh store, with the direct store operations in between
NextStore ==
    \/ \E w \in Workers, d \in 1..MaxDesigns, p \in GenParams :
          Quiet /\ Resolve(w, d, p)
    \/ \E w \in Workers : RecordRead(w)
    \/ \E w \in Workers : RecordInsert(w)
    \/ \E w \in Workers, outcome \in EngineOutcomes : EngineGenerate(w, outcome)
    \/ \E w \in Workers : Reconcile(w)
    \/ \E name \in DesignNames : CreateDesign(name)
    \/ \E r \in RevisionIdInputs, s \in StatusInputs,
          n \in EcoNumberInputs, m \in EcoReasonInputs : UpdateEcoStatus(r, s, n, m)
    \/ \E r \in RevisionIdInputs, paths \in PathInputs : UpdateOutputPaths(r, paths)
    \/ Tick

SpecStore == InitFresh /\ [][NextStore]_vars

\* validate applied on its own to every parameter set and rule list drawn
RECURSIVE SeqsUpTo(_, _)
SeqsUpTo(S, n) ==
    IF n = 0 THEN {<<>>}
    ELSE LET shorter == SeqsUpTo(S, n - 1)
         IN  shorter \cup {Append(q, x) : q \in shorter, x \in S}

ValidateCall ==
    /\ ~vOut.called
    /\ vOut' = [called |-> TRUE, result |-> validate(vIn.parameters, vIn.rules)]
    /\ UNCHANGED <<vIn, pipeVars>>

InitValidate ==
    /\ InitTables
    /\ InitNoCall
    /\ vIn \in [parameters : ParamPool, rules : SeqsUpTo(RulePool, MaxRules)]
    /\ vOut = NoValidateCall

NextValidate == ValidateCall

SpecValidate == InitValidate /\ [][NextValidate]_vars

\* Repository operations called one at a time, each in a session of its own
\* that the caller commits, on a fresh store.

\* step 3 of generate as one session: RevisionRepository.create, the
\* validation snapshot, commit
CreateRevision(design_id, parameters) ==
    /\ Cardinality(DOMAIN revisions) < MaxRows
    /\ \E code \in get_next_revision_code(design_id) :
          IF InsertViolates(design_id, code)
          THEN /\ call' = [op |-> "create", exc |-> "IntegrityError",
                           design_id |-> design_id]
               /\ UNCHANGED <<revisions, assigned>>
          ELSE /\ revisions' = revisions @@
                      (NextId(revisions) :>
                          NewRevision(design_id, code, parameters, <<>>))
               /\ assigned' = [assigned EXCEPT ![design_id] = Append(@, code)]
               /\ call' = [op |-> "create", exc |-> None, design_id |-> design_id]
    /\ UNCHANGED <<designs, clock, pc, loc, resp, engineLog, storeOps, vIn, vOut, session>>

\* DesignRepository.delete and the caller's commit.  The revisions relationship
\* has no delete cascade: the flush sets design_id of the design's rows to NULL,
\* which the NOT NULL column rejects, and the session is rolled back.
DeleteDesign(design_id) ==
    /\ IF design_id \notin DOMAIN designs
       THEN /\ call' = [op |-> "delete", exc |-> None, design_id |-> design_id,
                        result |-> FALSE, owned |-> FALSE]
            /\ designs' = designs
       ELSE IF RevisionsOf(design_id) = {}
       THEN /\ call' = [op |-> "delete", exc |-> None, design_id |-> design_id,
                        result |-> TRUE, owned |-> FALSE]
            /\ designs' = [d \in DOMAIN designs \ {design_id} |-> designs[d]]
       ELSE /\ call' = [op |-> "delete", exc |-> "IntegrityError",
                        design_id |-> design_id, result |-> TRUE, owned |-> TRUE]
            /\ designs' = designs
    /\ UNCHANGED <<revisions, clock, pc, loc, resp, engineLog, assigned,
                   storeOps, vIn, vOut, session>>

GetByDesign(design_id) ==
    /\ \E seq \in get_by_design(design_id) :
          call' = [op |-> "get_by_design", exc |-> None, design_id |-> design_id,
                   result |-> seq]
    /\ UNCHANGED <<designs, revisions, clock, pc, loc, resp, engineLog, assigned,
                   storeOps, vIn, vOut, session>>

GetLatestForDesign(design_id) ==
    /\ call' = [op |-> "get_latest_for_design", exc |-> None,
                design_id |-> design_id,
                result |-> get_latest_for_design(design_id)]
    /\ UNCHANGED <<designs, revisions, clock, pc, loc, resp, engineLog, assigned,
                   storeOps, vIn, vOut, session>>

\* previous is the result of the call before when that was the same call for
\* the same design (<<>> otherwise)
GetNextRevisionCode(design_id) ==
    /\ \E code \in get_next_revision_code(design_id) :
          call' = [op |-> "get_next_revision_code", exc |-> None,
                   design_id |-> design_id, result |-> code,
                   previous |-> IF /\ call.op = "get_next_revision_code"
                                   /\ call.design_id = design_id
                                THEN call.result ELSE <<>>]
    /\ UNCHANGED <<designs, revisions, clock, pc, loc, resp, engineLog, assigned,
                   storeOps, vIn, vOut, session>>

NextRepo ==
    \/ \E name \in DesignNames : CreateDesign(name)
    \/ \E d \in 1..MaxDesigns : CreateRevision(d, PValid)
    \/ \E d \in 1..MaxDesigns : DeleteDesign(d)
    \/ \E d \in 1..MaxDesigns : GetByDesign(d)
    \/ \E d \in 1..MaxDesigns : GetLatestForDesign(d)
    \/ \E d \in 1..MaxDesigns : GetNextRevisionCode(d)
    \/ Tick

SpecRepo == InitFresh /\ [][NextRepo]_vars

\* _increment_revision_code applied on its own to every code drawn: the
\* letters A, B, Y, Z, a, z
CodeLetters == {1, 2, AlphabetSize - 1, AlphabetSize,
                AlphabetSize + 1, 2 * AlphabetSize}
CodeInputs == SeqsUpTo(CodeLetters, MaxCodeLen) \ {<<>>}

IncrementCall ==
    /\ call.op = "_increment_revision_code" /\ ~call.done
    /\ call' = [call EXCEPT !.done = TRUE,
                            !.result = _increment_revision_code(call.code)]
    /\ UNCHANGED <<designs, revisions, clock, pc, loc, resp, engineLog, assigned,
                   storeOps, vIn, vOut, session>>

InitIncrement ==
    /\ InitTables
    /\ InitNoValidate
    /\ call \in {[op |-> "_increment_revision_code", exc |-> None, code |-> c,
                  done |-> FALSE, result |-> <<>>] : c \in CodeInputs}

NextIncrement == IncrementCall

SpecIncrement == InitIncrement /\ [][NextIncrement]_vars

\* Revision.parameters set and read back, for every mapping drawn
ParamNames == {"largo", "tiene_ranuras", "acabado_superficial"}
ParamValues == {Num(0), Num(300), Bool(TRUE), Bool(FALSE),
                Str(""), Str("300"), Str("true")}
ParamMappings == UNION {[S -> ParamValues] : S \in SUBSET ParamNames}

\* the parameters property of a row
parameters_of(rev) == JsonLoads(rev.parameters_json)

ParametersCall ==
    /\ call.op = "parameters" /\ ~call.done
    /\ call' = [call EXCEPT
                   !.done = TRUE,
                   !.result = parameters_of(NewRevision(1, <<1>>, call.value, <<>>))]
    /\ UNCHANGED <<designs, revisions, clock, pc, loc, resp, engineLog, assigned,
                   storeOps, vIn, vOut, session>>

InitParameters ==
    /\ InitTables
    /\ InitNoValidate
    /\ call \in {[op |-> "parameters", exc |-> None, value |-> v,
                  done |-> FALSE, result |-> <<>>] : v \in ParamMappings}

NextParameters == ParametersCall

SpecParameters == InitParameters /\ [][NextParameters]_vars

\* The sessions of steps 3 and 5 of generate, statement by statement: the
\* writes of an open session are its own until the commit, and get_session
\* rolls the session back when an exception leaves the with block.

\* the row RevisionRepository.create flushes: validation_passed has its
\* column default and no warnings are attached yet
FlushedRevision(design_id, revision_code, parameters) ==
    [NewRevision(design_id, revision_code, parameters, <<>>) EXCEPT
        !.validation_passed = 0]

\* rev.validation_passed = 1; rev.validation_warnings_json = ...
WithSnapshot(rev, warning_msgs) ==
    [rev EXCEPT !.validation_passed = 1,
                !.validation_warnings_json = WarningsJson(warning_msgs)]

\* the assignments of update_output_paths, in their order
PathKeyOrder == <<"fcstd", "step", "dxf", "pdf", "bom_xlsx", "bom_pdf">>

\* rev.<key>_path = value
WithPath(rev, key, value) ==
    CASE key = "fcstd" -> [rev EXCEPT !.fcstd_path = value]
      [] key = "step" -> [rev EXCEPT !.step_path = value]
      [] key = "dxf" -> [rev EXCEPT !.dxf_path = value]
      [] key = "pdf" -> [rev EXCEPT !.pdf_path = value]
      [] key = "bom_xlsx" -> [rev EXCEPT !.bom_xlsx_path = value]
      [] key = "bom_pdf" -> [rev EXCEPT !.bom_pdf_path = value]

\* a rollback that leaves what the session had flushed
RollbackKeepingWrites(rows, sess) == sess.rows

\* session.rollback(): the committed rows are what they were
Rollback(rows, sess) == rows

\* parameter sets that pass validation, and their warnings (step 2)
SessionParams == {PValid, PWide}
WarningMsgs(parameters) ==
    Texts(Warnings(validate(parameters, CatalogRules("base_plate"))))

\* successful engine results step 5 persists
SessionResults == {EngineResult("ok"), EngineResult("ok_partial")}

\* step 3 up to the return of rev_repo.create: next code, INSERT at flush
Step3Flush(design_id, parameters) ==
    /\ ~session.open
    /\ design_id \in DOMAIN designs
    /\ Cardinality(DOMAIN revisions) < MaxSessionRows
    /\ \E code \in get_next_revision_code(design_id) :
          IF InsertViolates(design_id, code)
          THEN /\ session' = NoSession
               /\ call' = [op |-> "step3", exc |-> "IntegrityError"]
          ELSE /\ session' =
                     [open |-> TRUE, step |-> 3,
                      rows |-> revisions @@
                          (NextId(revisions) :>
                              FlushedRevision(design_id, code, parameters)),
                      revision_id |-> NextId(revisions),
                      warning_msgs |-> WarningMsgs(parameters),
                      paths |-> <<>>, next |-> 0]
               /\ call' = [op |-> "step3", exc |-> None]
    /\ UNCHANGED <<designs, revisions, clock, pc, loc, resp, engineLog, assigned,
                   storeOps, vIn, vOut>>

\* step 3: the two assignments of the validation snapshot
Step3Snapshot ==
    /\ session.open /\ session.step = 3 /\ session.next = 0
    /\ session' = [session EXCEPT
                      !.rows[session.revision_id] =
                          WithSnapshot(@, session.warning_msgs),
                      !.next = 1]
    /\ UNCHANGED <<designs, revisions, clock, pc, loc, resp, engineLog, assigned,
                   storeOps, vIn, vOut, call>>

\* step 5 up to the lookup of update_output_paths, for the row of step 3 of
\* an invocation whose engine call succeeded
Step5Open(revision_id, cad_result) ==
    /\ ~session.open
    /\ revision_id \in DOMAIN revisions
    /\ NoOutputPaths(revisions[revision_id])
    /\ session' = [open |-> TRUE, step |-> 5, rows |-> revisions,
                   revision_id |-> revision_id, warning_msgs |-> <<>>,
                   paths |-> [fcstd |-> cad_result.fcstd_path,
                              step |-> cad_result.step_path],
                   next |-> 0]
    /\ call' = [op |-> "step5", exc |-> None]
    /\ UNCHANGED <<designs, revisions, clock, pc, loc, resp, engineLog, assigned,
                   storeOps, vIn, vOut>>

\* update_output_paths: the next of its six assignments
Step5Assign ==
    /\ session.open /\ session.step = 5 /\ session.next < Len(PathKeyOrder)
    /\ LET key == PathKeyOrder[session.next + 1]
       IN  session' = [session EXCEPT
                          !.rows[session.revision_id] =
                              WithPath(@, key, PathGet(session.paths, key)),
                          !.next = @ + 1]
    /\ UNCHANGED <<designs, revisions, clock, pc, loc, resp, engineLog, assigned,
                   storeOps, vIn, vOut, call>>

\* session.commit() at the end of the with block
SessionCommit ==
    /\ session.open
    /\ session.next = IF session.step = 3 THEN 1 ELSE Len(PathKeyOrder)
    /\ revisions' = session.rows
    /\ assigned' = IF session.step = 3
                   THEN LET rev == session.rows[session.revision_id]
                        IN  [assigned EXCEPT ![rev.design_id] =
                                Append(@, rev.revision_code)]
                   ELSE assigned
    /\ session' = NoSession
    /\ call' = [op |-> "commit", exc |-> None]
    /\ UNCHANGED <<designs, clock, pc, loc, resp, engineLog, storeOps, vIn, vOut>>

\* an exception leaves the with block before the commit: get_session rolls
\* the session back and re-raises
SessionFault ==
    /\ session.open
    /\ revisions' = Rollback(revisions, session)
    /\ session' = NoSession
    /\ call' = [op |-> "rollback", exc |-> "Exception", step |-> session.step,
                next |-> session.next, revision_id |-> session.revision_id]
    /\ UNCHANGED <<designs, clock, pc, loc, resp, engineLog, assigned,
                   storeOps, vIn, vOut>>

NextSession ==
    \/ \E name \in DesignNames : CreateDesign(name)
    \/ \E d \in 1..MaxDesigns, p \in SessionParams : Step3Flush(d, p)
    \/ Step3Snapshot
    \/ \E r \in DOMAIN revisions, cad_result \in SessionResults : Step5Open(r, cad_result)
    \/ Step5Assign
    \/ SessionCommit
    \/ SessionFault
    \/ Tick

SpecSession == InitFresh /\ [][NextSession]_vars

\* update_eco_status called on revisions that earlier calls left in each of
\* the three statuses: a revision never touched, one issued under ECO-0, one
\* made obsolete under ECO-0
EcoHistories ==
    {[eco_status |-> "draft", eco_number |-> None, eco_reason |-> None],
     [eco_status |-> "issued", eco_number |-> "ECO-0", eco_reason |-> "emision"],
     [eco_status |-> "obsolete", eco_number |-> "ECO-0", eco_reason |-> "retirada"]}

\* revision number i of design 1 after such a history
EcoRevision(i, history) ==
    [SeedRevision(SeedLen - 2 + i) EXCEPT
        !.revision_code = NthCode(i),
        !.eco_status = history.eco_status,
        !.eco_number = history.eco_number,
        !.eco_reason = history.eco_reason]

InitEco ==
    /\ InitWorkers
    /\ InitNoValidate
    /\ InitNoCall
    /\ designs = (1 :> [piece_type_id |-> 1, name |-> <<"P", " ", "1">>])
    /\ revisions \in {<<EcoRevision(1, h1), EcoRevision(2, h2)>> :
                         h1 \in EcoHistories, h2 \in EcoHistories}
    /\ assigned = [d \in 1..MaxDesigns |->
                      IF d = 1 THEN <<NthCode(1), NthCode(2)>> ELSE <<>>]

NextEco ==
    \/ \E r \in RevisionIdInputs, s \in StatusInputs,
          n \in EcoNumberInputs, m \in EcoReasonInputs : UpdateEcoStatus(r, s, n, m)
    \/ \E d \in 1..MaxDesigns : CreateRevision(d, PValid)
    \/ Tick

SpecEco == InitEco /\ [][NextEco]_vars

(* ------------------------------ properties ----------------------------- *)
Finished(w) == pc[w] \in {"done", "raised"}

\* the invocation of worker w resolved its design and its parameters passed
PassedValidation(w) == loc[w].validated /\ loc[w].validation.is_valid

\* C1: the codes given to the revisions of a design, in the order in which
\* the generations recorded them, are the first terms of A, B, ..., Z, AA, ...
C1_MonotonicCoding ==
    \A d \in 1..MaxDesigns :
        \A i \in 1..Len(assigned[d]) : assigned[d][i] = NthCode(i)

\* two generations after the seeded ones, the first at the instant of the
\* last seeded revision, the second past Z
C1_Witness ==
    /\ Len(assigned[1]) = SeedLen + 2
    /\ \E r \in RevisionsOf(1) :
          /\ r + 1 \in RevisionsOf(1)
          /\ revisions[r].generated_at = revisions[r + 1].generated_at
    /\ \E w \in Workers : pc[w] = "done" /\ resp[w].success
                          /\ Len(resp[w].revision_code) = Len(NthCode(SeedLen + 2))

\* C2: an invocation whose validation has an error message has returned
\* success = false with the error messages and the warnings of validation,
\* without a revision and without a call of the engine.
C2_AbortOnInvalid ==
    \A w \in Workers :
        (loc[w].validated /\ Errors(loc[w].validation) # <<>>) =>
            /\ pc[w] = "done"
            /\ loc[w].ncalls = 0
            /\ loc[w].revision_id = NoId
            /\ \A c \in engineLog : c.worker # w
            /\ \A r \in DOMAIN revisions : r > SeedLen =>
                   \E v \in Workers \ {w} : loc[v].revision_id = r
            /\ ~resp[w].success
            /\ resp[w].revision_id = NoId
            /\ resp[w].errors = Texts(Errors(loc[w].validation))
            /\ resp[w].warnings = Texts(Warnings(loc[w].validation))

C2_Witness ==
    \E w \in Workers :
        /\ pc[w] = "done" /\ loc[w].validated
        /\ Len(resp[w].errors) = 1 /\ Len(resp[w].warnings) = 1
        /\ \E v \in Workers : pc[v] = "done" /\ resp[v].success

\* C3: once the engine has reported a failure to an invocation, the one row
\* that invocation inserted is in the store with no output path, with
\* validation_passed set and in status draft, the engine was called once, and
\* no row has been added or removed besides one per recording invocation.
C3_TraceabilityOnFailure ==
    /\ \A w \in Workers :
          (pc[w] \in {"reconcile", "done"} /\ loc[w].ncalls > 0
             /\ ~loc[w].cad_result.success) =>
              /\ loc[w].ncalls = 1
              /\ loc[w].revision_id \in DOMAIN revisions
              /\ NoOutputPaths(revisions[loc[w].revision_id])
              /\ revisions[loc[w].revision_id].validation_passed = 1
              /\ revisions[loc[w].revision_id].eco_status = "draft"
              /\ revisions[loc[w].revision_id].design_id = loc[w].design_id
              /\ \A v \in Workers \ {w} : loc[v].revision_id # loc[w].revision_id
    /\ Cardinality(DOMAIN revisions) =
          SeedLen + Cardinality({w \in Workers : loc[w].revision_id # NoId})

C3_Witness ==
    \E w \in Workers :
        /\ pc[w] = "done" /\ loc[w].ncalls = 1
        /\ ~resp[w].success /\ resp[w].revision_id \in DOMAIN revisions
        /\ loc[w].cad_result = EngineResult("timeout")

\* C4: no two rows of the revisions table have the same design and code.
C4_UniqueCode ==
    \A r1 \in DOMAIN revisions, r2 \in DOMAIN revisions :
        (/\ revisions[r1].design_id = revisions[r2].design_id
         /\ revisions[r1].revision_code = revisions[r2].revision_code) => r1 = r2

\* an insert of a code the design already has was attempted and rejected
C4_Witness ==
    \E w \in Workers :
        /\ pc[w] = "raised" /\ loc[w].exc = "IntegrityError"
        /\ \E r \in RevisionsOf(loc[w].design_id) :
              revisions[r].revision_code = loc[w].revision_code

\* C5: allocation and insertion are one atomic step: two invocations that
\* are both between computing the next code and inserting the row never hold
\* the same code for the same design.
C5_AtomicAllocation ==
    \A w \in Workers, v \in Workers :
        (/\ w # v
         /\ pc[w] = "record_insert" /\ pc[v] = "record_insert"
         /\ loc[w].design_id = loc[v].design_id)
            => loc[w].revision_code # loc[v].revision_code

\* C6: generate always returns a response: no invocation ends with an
\* exception propagating to its caller.
C6_NoExceptionEscapes == \A w \in Workers : pc[w] # "raised"

\* C7: every stored row has validation_passed set, and every finished
\* invocation that resolved its design and passed validation left its row in
\* the store.
C7_RevisionIffValidated ==
    /\ \A r \in DOMAIN revisions : revisions[r].validation_passed = 1
    /\ \A w \in Workers :
          (Finished(w) /\ PassedValidation(w)) =>
              /\ loc[w].revision_id \in DOMAIN revisions
              /\ revisions[loc[w].revision_id].design_id = loc[w].design_id

\* C8: no step changes design_id, revision_code, parameters or generated_at
\* of a row that exists before and after it.
C8_WriteOnce ==
    [][\A r \in DOMAIN revisions :
          r \in DOMAIN revisions' =>
              /\ revisions'[r].design_id = revisions[r].design_id
              /\ revisions'[r].revision_code = revisions[r].revision_code
              /\ revisions'[r].parameters_json = revisions[r].parameters_json
              /\ revisions'[r].generated_at = revisions[r].generated_at]_vars

\* a row whose ECO fields were changed after a later instant than its creation
C8_Witness ==
    \E r \in DOMAIN revisions :
        /\ revisions[r].eco_status = "issued" /\ revisions[r].eco_number = "ECO-1"
        /\ revisions[r].generated_at < clock
        /\ revisions[r].fcstd_path # None

\* C9: validate returns is_valid = true exactly when none of the messages it
\* returns has severity error, however many warnings there are.
C9_ValidityDefinition ==
    vOut.called =>
        (vOut.result.is_valid <=>
            Len(BySeverity(vOut.result.messages, "error")) = 0)

C9_Witness ==
    /\ vOut.called /\ vOut.result.is_valid
    /\ Len(BySeverity(vOut.result.messages, "warning")) >= 2

\* rules among the first i that did not evaluate to true
NonPassing(rules, parameters, i) ==
    Cardinality({k \in 1..i :
        Eval(RuleGet(rules[k], "expression", "True"), parameters) # "true"})

\* C10: validate does not raise when an expression faults; the faulting rule
\* gives one message with its id and severity error whatever its declared
\* severity, the result is invalid, and the other rules are still evaluated.
C10_FaultBecomesError ==
    vOut.called =>
        LET rules == vIn.rules
            result == vOut.result
        IN  /\ result.raised = None
            /\ Len(result.messages) = NonPassing(rules, vIn.parameters, Len(rules))
            /\ \A i \in 1..Len(rules) :
                  LET outcome == Eval(RuleGet(rules[i], "expression", "True"),
                                      vIn.parameters)
                      m == result.messages[NonPassing(rules, vIn.parameters, i)]
                  IN  IsFault(outcome) =>
                          /\ m.rule_id = RuleGet(rules[i], "rule_id", "UNKNOWN")
                          /\ m.severity = "error"
                          /\ m.message.exc = outcome
                          /\ ~result.is_valid

\* a faulting rule declared as a warning, followed by a rule that fails
C10_Witness ==
    /\ vOut.called
    /\ Len(vIn.rules) = 2
    /\ vIn.rules[1] = VR_SYN_W
    /\ vIn.rules[2] = VR_BP_01_W /\ vIn.parameters = PThin
    /\ Len(vOut.result.messages) = 2

\* the output-path column of a row that a key of the paths dict names
PathField(rev, key) ==
    CASE key = "fcstd" -> rev.fcstd_path
      [] key = "step" -> rev.step_path
      [] key = "dxf" -> rev.dxf_path
      [] key = "pdf" -> rev.pdf_path
      [] key = "bom_xlsx" -> rev.bom_xlsx_path
      [] key = "bom_pdf" -> rev.bom_pdf_path

\* C11: a call of update_eco_status with a status other than draft, issued
\* or obsolete raises ValueError to its caller and changes no revision.
C11_InvalidStatusRejected ==
    [][\A r \in RevisionIdInputs, n \in EcoNumberInputs, m \in EcoReasonInputs,
          s \in StatusInputs \ {"draft", "issued", "obsolete"} :
          UpdateEcoStatus(r, s, n, m) =>
              /\ call'.exc = "ValueError"
              /\ revisions' = revisions]_vars

\* the call was rejected while a generated revision was in the store
C11_Witness ==
    /\ call.op = "update_eco_status" /\ call.exc = "ValueError"
    /\ \E r \in DOMAIN revisions :
          revisions[r].fcstd_path # None /\ revisions[r].eco_status = "draft"

\* C12: update_output_paths on an existing row sets each of the six path
\* columns to the value the paths dict supplies and to NULL when the dict has
\* no such key, whatever the column held.
C12_OutputPathsReplaced ==
    [][\A r \in DOMAIN revisions, paths \in PathInputs :
          UpdateOutputPaths(r, paths) =>
              \A k \in PathKeys :
                  PathField(revisions'[r], k) =
                      (IF k \in DOMAIN paths THEN paths[k] ELSE None)]_vars

\* the row of a successful generation lost its FCStd path to a later call
\* that supplied only the DXF path
C12_Witness ==
    /\ call.op = "update_output_paths"
    /\ \E w \in Workers :
          /\ pc[w] = "done" /\ resp[w].success
          /\ loc[w].cad_result.fcstd_path # None
          /\ revisions[resp[w].revision_id].fcstd_path = None
          /\ revisions[resp[w].revision_id].dxf_path = "plano.dxf"

\* position of an upper-case code in A, B, ..., Z, AA, AB, ...
RECURSIVE Rank(_)
Rank(code) ==
    IF code = <<>> THEN 0
    ELSE Rank(SubSeq(code, 1, Len(code) - 1)) * AlphabetSize + code[Len(code)]

\* C13: _increment_revision_code returns the successor, in A, B, ..., Z, AA,
\* AB, ..., of the upper-case form of its argument, in upper case.
C13_IncrementIsSuccessor ==
    (call.op = "_increment_revision_code" /\ call.done) =>
        /\ call.result = NthCode(Rank(Upper(call.code)) + 1)
        /\ \A i \in 1..Len(call.result) : call.result[i] \in 1..AlphabetSize
        /\ Len(call.result) =
              IF \A i \in 1..Len(call.code) : UpperChar(call.code[i]) = AlphabetSize
              THEN Len(call.code) + 1 ELSE Len(call.code)

\* 'zZ' became 'AAA'
C13_Witness ==
    /\ call.op = "_increment_revision_code" /\ call.done
    /\ call.code = <<2 * AlphabetSize, AlphabetSize>>
    /\ call.result = <<1, 1, 1>>

\* C14: after a delete that returned True for a design that owned revisions,
\* the design and its revisions are gone; every row references a design.
C14_DeleteCascades ==
    /\ \A r \in DOMAIN revisions : revisions[r].design_id \in DOMAIN designs
    /\ (call.op = "delete" /\ call.result /\ call.owned) =>
           /\ call.design_id \notin DOMAIN designs
           /\ RevisionsOf(call.design_id) = {}

\* C17: get_by_design returns the rows of the design in the order in which
\* they were inserted (ids grow with every insert).
C17_CreationOrder ==
    call.op = "get_by_design" =>
        /\ {call.result[i] : i \in 1..Len(call.result)} = RevisionsOf(call.design_id)
        /\ \A i \in 1..Len(call.result) - 1 : call.result[i] < call.result[i + 1]

\* C18: get_latest_for_design returns the row inserted last for the design,
\* and nothing when the design has no row.
C18_LatestByIdentity ==
    call.op = "get_latest_for_design" =>
        LET codes == assigned[call.design_id]
        IN  IF codes = <<>> THEN call.result = NoId
            ELSE /\ call.result \in RevisionsOf(call.design_id)
                 /\ revisions[call.result].revision_code = codes[Len(codes)]

\* the latest of three rows, two of them of the design and of the same instant
C18_Witness ==
    /\ call.op = "get_latest_for_design"
    /\ call.result \in DOMAIN revisions
    /\ \E r \in RevisionsOf(call.design_id) :
          /\ r < call.result
          /\ revisions[r].generated_at = revisions[call.result].generated_at
    /\ \E r \in DOMAIN revisions :
          r > call.result /\ revisions[r].design_id # call.design_id

C15_ResolveFailure ==
    \A w \in Workers :
        /\ (pc[w] # "idle" /\ loc[w].validated) =>
               loc[w].design_id \in DOMAIN designs
        /\ (pc[w] # "idle" /\ ~loc[w].validated) =>
               /\ pc[w] = "done"
               /\ resp[w] = GenerationResponse(FALSE, NoId, <<>>, NoDir,
                                <<Text("Diseno no encontrado.")>>, <<>>)
               /\ loc[w].revision_id = NoId
               /\ loc[w].ncalls = 0
               /\ \A c \in engineLog : c.worker # w
               /\ \A r \in DOMAIN revisions : r > SeedLen =>
                      \E v \in Workers \ {w} : loc[v].revision_id = r

\* a request for design 2 before it existed, beside a successful generation
C15_Witness ==
    \E w \in Workers :
        /\ pc[w] = "done" /\ ~loc[w].validated /\ loc[w].design_id = 2
        /\ 2 \in DOMAIN designs
        /\ \E v \in Workers : pc[v] = "done" /\ resp[v].success

C20_StagesInOrder ==
    /\ \A c \in engineLog :
          LET locals == loc[c.worker]
          IN  /\ c.revision_id \in DOMAIN revisions
              /\ c.revision_id = locals.revision_id
              /\ revisions[c.revision_id].design_id = locals.design_id
              /\ revisions[c.revision_id].revision_code = c.revision_code
              /\ c.piece_code =
                    PieceTypeTable[designs[locals.design_id].piece_type_id].code
              /\ c.parameters = locals.parameters
              /\ locals.ncalls = 1
              /\ \A c2 \in engineLog : c2.worker = c.worker => c2 = c
    /\ \A w \in Workers :
          /\ loc[w].ncalls <= 1
          /\ loc[w].ncalls = 1 => \E c \in engineLog : c.worker = w
          /\ pc[w] \in {"idle", "record_read", "record_insert", "engine"} =>
                 loc[w].ncalls = 0
          /\ pc[w] \in {"engine", "reconcile"} =>
                 /\ loc[w].revision_id \in DOMAIN revisions
                 /\ NoOutputPaths(revisions[loc[w].revision_id])
          /\ (loc[w].revision_id # NoId
                /\ ~NoOutputPaths(revisions[loc[w].revision_id])) =>
                 /\ pc[w] = "done" /\ loc[w].ncalls = 1
                 /\ loc[w].cad_result.success

\* the engine has returned success and step 5 has not run yet
C20_Witness ==
    \E w \in Workers :
        /\ pc[w] = "reconcile" /\ loc[w].ncalls = 1
        /\ loc[w].cad_result.success
        /\ loc[w].revision_code = NthCode(SeedLen + 2)
        /\ NoOutputPaths(revisions[loc[w].revision_id])


\* a row with its six output-path columns set to NULL
WithoutPaths(rev) == WithOutputPaths(rev, <<>>)

\* C21: a step of generate never changes the designs; steps 1, 2 and 4 leave
\* the revisions as they are; step 3 adds at most one row, of the design of
\* the request, and changes no other; step 5 adds and removes nothing, changes
\* at most the output paths of the row the invocation inserted, and nothing
\* when the engine failed.
C21_SideEffectsConfined ==
    [][\A w \in Workers :
          pc'[w] # pc[w] =>
              /\ designs' = designs
              /\ pc[w] \in {"idle", "record_read", "engine"} =>
                     revisions' = revisions
              /\ pc[w] = "record_insert" =>
                     /\ \A r \in DOMAIN revisions :
                           r \in DOMAIN revisions' /\ revisions'[r] = revisions[r]
                     /\ DOMAIN revisions' \ DOMAIN revisions
                           \subseteq {loc'[w].revision_id}
                     /\ \A r \in DOMAIN revisions' \ DOMAIN revisions :
                           revisions'[r].design_id = loc[w].design_id
              /\ pc[w] = "reconcile" =>
                     /\ DOMAIN revisions' = DOMAIN revisions
                     /\ \A r \in DOMAIN revisions \ {loc[w].revision_id} :
                           revisions'[r] = revisions[r]
                     /\ WithoutPaths(revisions'[loc[w].revision_id]) =
                           WithoutPaths(revisions[loc[w].revision_id])
                     /\ ~loc[w].cad_result.success => revisions' = revisions]_vars

\* a successful generation wrote its paths beside the row of a failed one of
\* the same design, which kept none
C21_Witness ==
    \E w \in Workers, v \in Workers :
        /\ pc[w] = "done" /\ resp[w].success
        /\ revisions[loc[w].revision_id].fcstd_path = "model.FCStd"
        /\ pc[v] = "done" /\ ~resp[v].success /\ loc[v].revision_id # NoId
        /\ loc[v].design_id = loc[w].design_id
        /\ loc[v].revision_id < loc[w].revision_id
        /\ NoOutputPaths(revisions[loc[v].revision_id])

\* C22: an invocation that returned after the engine did reports the id and
\* code of the row it recorded and the directory it passed to the engine, its
\* warnings are those of validation followed by those of the engine;
\* on engine success success = true and no errors; on engine failure
\* success = false and the one error is the engine's message, or the fallback
\* text when the engine gave none.
C22_ResponseReconciled ==
    \A w \in Workers :
        (pc[w] = "done" /\ loc[w].ncalls = 1) =>
            LET cad_result == loc[w].cad_result
            IN  /\ resp[w].success = cad_result.success
                /\ resp[w].revision_id = loc[w].revision_id
                /\ resp[w].revision_id \in DOMAIN revisions
                /\ resp[w].revision_code = revisions[resp[w].revision_id].revision_code
                /\ \E c \in engineLog :
                      c.worker = w /\ c.output_dir = resp[w].output_dir
                /\ resp[w].warnings =
                      Texts(Warnings(loc[w].validation)) \o cad_result.warnings
                /\ cad_result.success => resp[w].errors = <<>>
                /\ (~cad_result.success /\ cad_result.error_message \notin {None, ""})
                      => resp[w].errors = <<Text(cad_result.error_message)>>
                /\ (~cad_result.success /\ cad_result.error_message \in {None, ""})
                      => resp[w].errors =
                             <<Text("Error desconocido en el motor CAD.")>>

\* a failure without message after a validation warning, and an engine
\* failure with its message
C22_Witness ==
    \E w \in Workers, v \in Workers :
        /\ pc[w] = "done" /\ loc[w].ncalls = 1 /\ ~resp[w].success
        /\ resp[w].errors = <<Text("Error desconocido en el motor CAD.")>>
        /\ Len(resp[w].warnings) = 2
        /\ resp[w].warnings[2] = Text("aviso")
        /\ pc[v] = "done" /\ loc[v].ncalls = 1 /\ ~resp[v].success
        /\ resp[v].errors = <<Text("FreeCAD agoto el tiempo limite")>>


\* C23: the committed rows change only at the commit of a session, and then
\* to all of what the session wrote (step 3: the new row with validation_passed
\* set and the warnings attached; step 5: every reported path); a session that
\* ends with an exception leaves the committed rows as they were; no committed
\* row has validation_passed unset.
C23_Transactional ==
    [][/\ revisions' # revisions =>
              /\ session.open /\ ~session'.open /\ call'.exc = None
              /\ revisions' = session.rows
              /\ session.step = 3 =>
                    /\ DOMAIN revisions' = DOMAIN revisions \cup {session.revision_id}
                    /\ \A r \in DOMAIN revisions : revisions'[r] = revisions[r]
                    /\ revisions'[session.revision_id].validation_warnings_json =
                          WarningsJson(session.warning_msgs)
              /\ session.step = 5 =>
                    revisions' = [revisions EXCEPT ![session.revision_id] =
                                     WithOutputPaths(@, session.paths)]
       /\ (session.open /\ call'.exc # None) =>
              /\ revisions' = revisions
              /\ ~session'.open
       /\ \A r \in DOMAIN revisions' : revisions'[r].validation_passed = 1]_vars

\* the session of step 5 ended with an exception after the first of its
\* assignments, and the row has no path
C23_Witness ==
    /\ call.op = "rollback" /\ call.step = 5 /\ call.next = 1
    /\ call.revision_id \in DOMAIN revisions
    /\ NoOutputPaths(revisions[call.revision_id])
    /\ revisions[call.revision_id].validation_warnings_json # NoText


\* C24: the messages of validate are one per rule that did not evaluate to
\* true, in the order of the rules; a rule that evaluates to false gives its
\* id, its declared severity and its declared message (the defaults when the
\* rule declares none); with no rules the result is valid and has no message.
C24_MessagesInRuleOrder ==
    vOut.called =>
        LET rules == vIn.rules
            result == vOut.result
        IN  /\ Len(result.messages) = NonPassing(rules, vIn.parameters, Len(rules))
            /\ \A i \in 1..Len(rules) :
                  LET outcome == Eval(RuleGet(rules[i], "expression", "True"),
                                      vIn.parameters)
                      m == result.messages[NonPassing(rules, vIn.parameters, i)]
                  IN  /\ outcome # "true" =>
                             m.rule_id = RuleGet(rules[i], "rule_id", "UNKNOWN")
                      /\ outcome = "false" =>
                             /\ m.severity = RuleGet(rules[i], "severity", "error")
                             /\ m.message =
                                   Text(RuleGet(rules[i], "message", "Validation failed."))
            /\ rules = <<>> => (result.is_valid /\ result.messages = <<>>)

\* the warning rule placed before the error rule, both failing
C24_Witness ==
    /\ vOut.called
    /\ vIn.rules = <<VR_BP_02, VR_BP_01>> /\ vIn.parameters = PThinWide
    /\ Len(vOut.result.messages) = 2
    /\ vOut.result.messages[1].rule_id = "VR-BP-02"
    /\ vOut.result.messages[1].severity = "warning"
    /\ vOut.result.messages[2].rule_id = "VR-BP-01"


\* revisions a design has before the first generation of a behaviour
SeededRevisions(design_id) == IF design_id = 1 THEN SeedLen ELSE 0

\* C25: an invocation that passed validation while every other invocation is
\* for another design (or has not started) computes the code it would compute
\* running alone, the successor of its own design's last code, inserts its row
\* under that code without a constraint violation, and the codes of its design
\* stay the first terms of A, B, ..., Z, AA, ...
C25_DesignsIndependent ==
    \A w \in Workers :
        (/\ pc[w] \notin {"idle", "record_read"}
         /\ PassedValidation(w)
         /\ \A v \in Workers \ {w} :
               pc[v] = "idle" \/ loc[v].design_id # loc[w].design_id) =>
            LET d == loc[w].design_id
                code == NthCode(SeededRevisions(d) + 1)
            IN  /\ loc[w].revision_code = code
                /\ loc[w].exc # "IntegrityError"
                /\ pc[w] # "record_insert" =>
                      /\ loc[w].revision_id \in RevisionsOf(d)
                      /\ revisions[loc[w].revision_id].revision_code = code
                      /\ Len(assigned[d]) = SeededRevisions(d) + 1
                      /\ assigned[d][Len(assigned[d])] = code

\* the invocation for design 2 started later and inserted its row first
C25_Witness ==
    /\ loc[1].design_id = 1 /\ loc[2].design_id = 2
    /\ pc[1] = "done" /\ resp[1].success
    /\ pc[2] = "done" /\ resp[2].success
    /\ loc[2].revision_id < loc[1].revision_id
    /\ resp[1].revision_code = NthCode(SeedLen + 1)
    /\ resp[2].revision_code = <<1>>


C27_TransitionsUnconstrained ==
    [][/\ \A r \in DOMAIN revisions, t \in EcoStatuses,
            n \in EcoNumberInputs, m \in EcoReasonInputs :
            UpdateEcoStatus(r, t, n, m) =>
                /\ call'.exc = None
                /\ r \in DOMAIN revisions'
                /\ revisions'[r].eco_status = t
       /\ \A r \in DOMAIN revisions' \ DOMAIN revisions :
            revisions'[r].eco_status = "draft"]_vars

\* an obsolete revision was issued again, beside a revision created in draft
C27_Witness ==
    /\ call.op = "update_eco_status" /\ call.exc = None
    /\ \E r \in DOMAIN revisions :
          /\ revisions[r].eco_status = "issued"
          /\ revisions[r].eco_reason = "retirada"
    /\ \E r \in DOMAIN revisions :
          r > 2 /\ revisions[r].eco_status = "draft"

\* a row without its three ECO columns
WithoutEco(rev) ==
    [rev EXCEPT !.eco_status = "draft", !.eco_number = None, !.eco_reason = None]

\* C30: update_eco_status with an allowed status adds and removes no row and
\* changes no design; every row but the targeted one is unchanged; of the
\* targeted row only the ECO columns can change: eco_number and eco_reason
\* take the supplied value and keep their previous value when omitted;
\* for an id that names no row the store is unchanged.
C30_EcoUpdateFrame ==
    [][\A r \in RevisionIdInputs, s \in EcoStatuses,
          n \in EcoNumberInputs, m \in EcoReasonInputs :
          UpdateEcoStatus(r, s, n, m) =>
              /\ designs' = designs
              /\ DOMAIN revisions' = DOMAIN revisions
              /\ \A q \in DOMAIN revisions \ {r} : revisions'[q] = revisions[q]
              /\ r \in DOMAIN revisions =>
                    /\ revisions'[r].eco_number =
                          (IF n # None THEN n ELSE revisions[r].eco_number)
                    /\ revisions'[r].eco_reason =
                          (IF m # None THEN m ELSE revisions[r].eco_reason)
                    /\ WithoutEco(revisions'[r]) = WithoutEco(revisions[r])
              /\ r \notin DOMAIN revisions => revisions' = revisions]_vars

\* a revision issued under ECO-0 is back in draft and keeps number and reason
C30_Witness ==
    /\ call.op = "update_eco_status" /\ call.exc = None
    /\ \E r \in DOMAIN revisions :
          /\ revisions[r].eco_status = "draft"
          /\ revisions[r].eco_number = "ECO-0"
          /\ revisions[r].eco_reason = "emision"
          /\ revisions[r].fcstd_path = "model.FCStd"


\* invocations for a design that passed validation and are past step 3
PastStep3(design_id) ==
    {w \in Workers : /\ PassedValidation(w) /\ loc[w].design_id = design_id
                     /\ pc[w] \in {"engine", "reconcile", "done", "raised"}}

\* the codes of the rows of a design
CodesOf(design_id) == {revisions[r].revision_code : r \in RevisionsOf(design_id)}

\* C28: every invocation that passed validation and is past step 3 has
\* consumed exactly one code, whatever the engine did: a design has one row
\* per such invocation besides the rows it had, and its codes are the first
\* terms of A, B, ..., Z, AA, ...
C28_OneCodePerInvocation ==
    \A d \in 1..MaxDesigns :
        /\ CodesOf(d) = {NthCode(k) : k \in 1..Cardinality(RevisionsOf(d))}
        /\ Cardinality(RevisionsOf(d)) =
              SeededRevisions(d) + Cardinality(PastStep3(d))

\* C29: two calls of the engine for different revisions never get the same
\* output directory.
C29_DistinctOutputDirs ==
    \A c1 \in engineLog, c2 \in engineLog :
        c1.revision_id # c2.revision_id => c1.output_dir # c2.output_dir

====
